---- MODULE Spec2Model ----
(***************************************************************************)
(* The LaCrosse View client (src/src/lacrosse_view/__init__.py): the       *)
(* session token, the four public coroutines login, get_locations,         *)
(* get_sensors and logout, and the _retry wrapper around each of them.     *)
(*                                                                         *)
(* One client instance, one logical flow: a public coroutine runs from     *)
(* its call to its return or raise before the next one is called.  A step  *)
(* of the model is the code between two suspension points (an awaited      *)
(* request, the awaited asyncio.sleep).  The server is the environment:    *)
(* each response is chosen among the statuses and bodies listed below.     *)
(***************************************************************************)
EXTENDS Integers, Sequences, FiniteSets, TLC

\* ------------------------------------------------------------------ bounds

\* longest "items" list a server response carries
MaxItems == 2

\* ------------------------------------------------------------- JSON values

Str(s) == [kind |-> "str", v |-> s]
None == [kind |-> "none", v |-> ""]
\* a key the response body does not have
Absent == [kind |-> "absent", v |-> ""]

\* every string (list, dict) of a fixed shape up to MaxItems entries
SeqsUpTo(S, n) == UNION {[1..k -> S] : k \in 0..n}

\* --------------------------------------------------------------- constants

\* update_retries = 5
UpdateRetries == 5

EmptyToken == Str("")

\* response.status values the server answers with
Statuses == {200, 401, 500}

\* str(response.status)
StatusStr(s) ==
    CASE s = 200 -> "200"
      [] s = 401 -> "401"
      [] s = 500 -> "500"

OperationSuccessful == "Operation Successful"

\* ------------------------------------------------------------------ errors

LoginError(msg) == [type |-> "LoginError", msg |-> <<msg>>]
\* HTTPError(prefix + detail)
HTTPError(prefix, detail) == [type |-> "HTTPError", msg |-> <<prefix, detail>>]
ValueError(msg) == [type |-> "ValueError", msg |-> <<msg>>]
\* "Bearer " + None, iterating None, subscripting None
TypeError(msg) == [type |-> "TypeError", msg |-> <<msg>>]
\* data["items"], data["message"] on a body without the key
KeyError(key) == [type |-> "KeyError", msg |-> <<key>>]
\* pytz.timezone(tz) on an unknown identifier
UnknownTimeZoneError(tz) == [type |-> "UnknownTimeZoneError", msg |-> <<tz>>]

NoError == [type |-> "none", msg |-> <<>>]

\* ------------------------------------------------- strings of the time range

\* start and end are strings; a string whose characters matter is the
\* sequence of its characters
Digits == {"0", "1", "2", "3", "4", "5", "6", "7", "8", "9"}

\* ord(c) of the characters the inputs are written in
Ord(c) ==
    CASE c = "+" -> 43 [] c = "-" -> 45
      [] c = "0" -> 48 [] c = "1" -> 49 [] c = "2" -> 50 [] c = "3" -> 51
      [] c = "4" -> 52 [] c = "5" -> 53 [] c = "6" -> 54 [] c = "7" -> 55
      [] c = "8" -> 56 [] c = "9" -> 57
      [] c = "a" -> 97 [] c = "b" -> 98 [] c = "c" -> 99

\* int(s) does not raise ValueError: an optional sign, then one digit or more
\* (blanks and underscores, which int() also accepts, are not in the alphabet)
ParsesAsInt(s) ==
    LET body == IF Len(s) > 0 /\ s[1] \in {"+", "-"} THEN Tail(s) ELSE s
    IN  /\ Len(body) > 0
        /\ \A i \in 1..Len(body) : body[i] \in Digits

\* int(s) of a string that parses: the digits in base 10, negated after "-"
RECURSIVE DigitsValue(_, _)
DigitsValue(s, acc) ==
    IF s = <<>> THEN acc
    ELSE DigitsValue(Tail(s), 10 * acc + (Ord(Head(s)) - 48))

IntOf(s) ==
    IF s[1] = "-" THEN 0 - DigitsValue(Tail(s), 0)
    ELSE IF s[1] = "+" THEN DigitsValue(Tail(s), 0)
    ELSE DigitsValue(s, 0)

\* fault variant: int(start) > int(end)
IntGreater(a, b) ==
    IF ParsesAsInt(a) /\ ParsesAsInt(b) THEN IntOf(a) > IntOf(b) ELSE FALSE

\* a > b on two str: the first differing character decides, then the length
RECURSIVE StrGreater(_, _)
StrGreater(a, b) ==
    IF a = <<>> THEN FALSE
    ELSE IF b = <<>> THEN TRUE
    ELSE IF Head(a) # Head(b) THEN Ord(Head(a)) > Ord(Head(b))
    ELSE StrGreater(Tail(a), Tail(b))

\* the identifiers pytz resolves
KnownTimezones == {"America/New_York", "UTC"}

\* fault variant: the timezone is never looked up
ValidateArgsNoTimezone(tz, start, end) ==
    IF start # <<>> /\ end # <<>>
    THEN IF ~(ParsesAsInt(start) /\ ParsesAsInt(end))
         THEN ValueError("Invalid start or end time.")
         ELSE IF StrGreater(start, end)
              THEN ValueError("Start time cannot be after end time.")
              ELSE NoError
    ELSE NoError

\* fault variant: start and end are compared without the int() test
ValidateArgsNoParse(tz, start, end) ==
    IF tz \notin KnownTimezones THEN UnknownTimeZoneError(tz)
    ELSE IF start # <<>> /\ end # <<>>
         THEN IF StrGreater(start, end)
              THEN ValueError("Start time cannot be after end time.")
              ELSE NoError
         ELSE NoError

\* get_sensors, from timezone(tz) to the range test: the exception raised,
\* NoError when the arguments pass (datetime.fromtimestamp accepts every
\* integer the inputs below can spell)
ValidateArgs(tz, start, end) ==
    IF tz \notin KnownTimezones THEN UnknownTimeZoneError(tz)
    ELSE IF start # <<>> /\ end # <<>>
         THEN IF ~(ParsesAsInt(start) /\ ParsesAsInt(end))
              THEN ValueError("Invalid start or end time.")
              ELSE IF StrGreater(start, end)
                   THEN ValueError("Start time cannot be after end time.")
                   ELSE NoError
         ELSE NoError

\* ------------------------------------------------------------ input domains

Emails == {"user@example.com"}
Passwords == {"hunter2", "wrong"}

Timezones == {"America/New_York", "Mars/Phobos"}

\* start and end: "", "abc", "9", "10" in every combination, "100" with "200",
\* and "10" with "100" (one a prefix of the other)
TimeStrs == { <<>>, <<"a", "b", "c">>, <<"9">>, <<"1", "0">> }

TimeRanges ==
    (TimeStrs \X TimeStrs)
    \cup { <<<<"2", "0", "0">>, <<"1", "0", "0">>>>,
           <<<<"1", "0", "0">>, <<"2", "0", "0">>>>,
           <<<<"1", "0">>, <<"1", "0", "0">>>>,
           <<<<"1", "0", "0">>, <<"1", "0">>>> }

\* Location(id=..., name=...)
Location(id, name) == [id |-> id, name |-> name]

Locations == {Location("L1", "Home"), Location("L2", "Cabin")}

\* ---------------------------------------------------------- server answers

\* data of the login response: its idToken, Absent when the key is missing
LoginBodies == {[idToken |-> t] : t \in {Absent, None, Str(""), Str("abc")}}

\* one entry of the locations response's items (extra keys are not read)
LocationItems ==
    { [id |-> "L1", name |-> "Home", weight |-> "1"],
      [id |-> "L2", name |-> "Cabin", weight |-> "2"] }

\* data of the locations response; has_items is FALSE when "items" is missing
LocationsBodies ==
    {[has_items |-> FALSE, items |-> <<>>]}
    \cup {[has_items |-> TRUE, items |-> s] : s \in SeqsUpTo(LocationItems, MaxItems)}

\* data of the logout response; has_message is FALSE when "message" is missing
LogoutBodies ==
    {[has_message |-> FALSE, message |-> ""]}
    \cup {[has_message |-> TRUE, message |-> m] : m \in {OperationSuccessful, "Unauthorized"}}

\* one entry of the association response's items
Device(id, name, sid, type, fields) ==
    [id |-> id, name |-> name,
     sensor |-> [id |-> sid, type |-> [name |-> type], fields |-> fields,
                 permissions |-> [read |-> TRUE]]]

DeviceItems ==
    { Device("D1", "Outdoor", "S1", "T1", <<"Humidity", "NotSupported", "Temperature">>),
      Device("D2", "Indoor", "S2", "T2", <<"NOTSUPPORTED", "notsupported">>) }

\* data of the association response; has_items is FALSE when "items" is missing
AssociationBodies ==
    {[has_items |-> FALSE, items |-> <<>>]}
    \cup {[has_items |-> TRUE, items |-> s] : s \in SeqsUpTo(DeviceItems, MaxItems)}

\* the time series of a feed response
FeedPayloads == {[Temperature |-> <<1, 70>>], [Temperature |-> <<1, 71>>]}

\* data of a feed response: {"ref.user-device.<device>": {"ai.ticks.1": {"fields": fields}}}
FeedBodies == {[device |-> d.id, fields |-> f] : d \in DeviceItems, f \in FeedPayloads}

\* ------------------------------------------------------------------- state

VARIABLES
    token,           \* self.token
    token0,          \* self.token when the running (or last) call was made
    websession,      \* TRUE when the caller supplied self.websession
    websession_closed, \* TRUE once the client has closed the session supplied to it
    pc,              \* "idle", "await" (a request in flight), "sleep"
    call,            \* the running (or last) call: its name and arguments
    update_retries,  \* the wrapper's local of the running call
    attempts,        \* times the wrapper called func in this call
    sleeps,          \* times the wrapper awaited asyncio.sleep(1) in this call
    requested,       \* TRUE once this call has issued a request
    sent,            \* requests issued in the running (or last) attempt
    status,          \* response.status of the last response of this call, 0 before
    data,            \* login, get_locations, logout: what response.json() gave last
    opened,          \* ClientSessions the client created and has not closed
    outcome,         \* what the last finished call returned or raised
    items,           \* get_sensors: data.get("items") of the association response
    idx,             \* get_sensors: position of the device being fetched
    devices,         \* get_sensors: the list built so far
    parsed,          \* get_sensors: what response.json() gave in the running attempt,
                     \* kept when the attempt returns
    discarded,       \* get_sensors: TRUE once an attempt of this call raised after
                     \* it had built a Sensor
    spent,           \* TRUE when the call before this one was retried by its wrapper
    prev             \* get_locations called after a get_locations that returned:
                     \* the token, the response and the result of that call

vars ==
    <<token, token0, websession, websession_closed, pc, call, update_retries, attempts, sleeps,
      requested, sent, status, data, opened, outcome, items, idx, devices,
      parsed, discarded, spent, prev>>

NoPrev == [set |-> FALSE]

\* no body parsed (yet): response.json() is not awaited on a status other than 200
NoData == [parsed |-> FALSE]
NoCall == [name |-> "none", args |-> <<>>]
NoOutcome == [kind |-> "none"]
Returned(v) == [kind |-> "return", value |-> v]
Raised(e) == [kind |-> "raise", error |-> e]

Init ==
    /\ token = EmptyToken
    /\ token0 = EmptyToken
    /\ websession \in BOOLEAN
    /\ websession_closed = FALSE
    /\ pc = "idle"
    /\ call = NoCall
    /\ update_retries = 0
    /\ attempts = 0
    /\ sleeps = 0
    /\ requested = FALSE
    /\ sent = <<>>
    /\ status = 0
    /\ data = NoData
    /\ opened = 0
    /\ outcome = NoOutcome
    /\ items = <<>>
    /\ idx = 0
    /\ devices = <<>>
    /\ parsed = <<>>
    /\ discarded = FALSE
    /\ spent = FALSE
    /\ prev = NoPrev

\* ------------------------------------------------------------ _retry.wrapper

\* fault variant: except Exception
CaughtByWrapperAny(e) == e.type # "none"

\* except HTTPError
CaughtByWrapper(e) == e.type = "HTTPError"

\* fault variant: the last retry credit is never used
RetriesExhaustedEarly(r) == r <= 1

\* if update_retries == 0: raise error
RetriesExhausted(r) == r = 0

\* func returned v: break, return result
AttemptReturns(v) ==
    /\ outcome' = Returned(v)
    /\ pc' = "idle"
    /\ UNCHANGED <<update_retries, sleeps>>

\* func raised e: the except clause when it catches e, else e leaves the wrapper
AttemptRaises(e) ==
    /\ IF CaughtByWrapper(e)
       THEN /\ update_retries' = update_retries - 1
            /\ IF RetriesExhausted(update_retries')
               THEN /\ outcome' = Raised(e)
                    /\ pc' = "idle"
                    /\ UNCHANGED sleeps
               ELSE /\ pc' = "sleep"
                    /\ sleeps' = sleeps + 1
                    /\ UNCHANGED outcome
       ELSE /\ outcome' = Raised(e)
            /\ pc' = "idle"
            /\ UNCHANGED <<update_retries, sleeps>>

\* the wrapper calls func: the state a new attempt starts from
EnterFunc ==
    /\ pc \in {"called", "sleep"}
    /\ attempts' = attempts + 1

\* func awaits the response of request r, the first of its attempt; without a
\* supplied websession it first enters async with aiohttp.ClientSession()
Issue(r) ==
    /\ pc' = "await"
    /\ sent' = <<r>>
    /\ requested' = TRUE
    /\ opened' = IF websession THEN opened ELSE opened + 1
    /\ UNCHANGED <<status, data, update_retries, sleeps, outcome>>

\* func raises before its first request
NothingIssued == sent' = <<>> /\ UNCHANGED <<requested, opened, status, data>>

\* fault variant: the session is left open when the status is not 200
ReleaseOnSuccess(st) ==
    /\ status' = st
    /\ opened' = IF websession \/ st # 200 THEN opened ELSE opened - 1
    /\ UNCHANGED <<sent, requested>>

\* a response with status st arrived and func is done with the network: the
\* async with blocks are left on the way out
Release(st) ==
    /\ status' = st
    /\ opened' = IF websession THEN opened ELSE opened - 1
    /\ UNCHANGED <<sent, requested>>

\* a response with status st arrived, its async with blocks are left, and func
\* awaits the response of its next request r
IssueNext(st, r) ==
    /\ status' = st
    /\ sent' = Append(sent, r)
    /\ UNCHANGED <<pc, requested, opened, update_retries, sleeps, outcome>>

Request(method, url, auth, json) ==
    [method |-> method, url |-> url, auth |-> auth, json |-> json]

\* "Bearer " + self.token
Bearer(tok) == <<"Bearer ", tok.v>>

\* what a call made now records of the call before it
Before(name) ==
    /\ spent' = (sleeps > 0)
    /\ prev' = IF name = "get_locations" /\ call.name = "get_locations"
                  /\ outcome.kind = "return"
               THEN [set |-> TRUE, token |-> token0, items |-> data.items,
                     value |-> outcome.value]
               ELSE NoPrev

\* fault variant: update_retries outlives the call (a variable of _retry, not
\* of wrapper)
InvokeSharedCredit(name, args) ==
    /\ pc = "idle"
    /\ pc' = "called"
    /\ call' = [name |-> name, args |-> args]
    /\ token0' = token
    /\ Before(name)
    /\ attempts' = 0
    /\ sleeps' = 0
    /\ requested' = FALSE
    /\ sent' = <<>>
    /\ status' = 0
    /\ data' = NoData
    /\ outcome' = NoOutcome
    /\ items' = <<>>
    /\ idx' = 0
    /\ devices' = <<>>
    /\ parsed' = <<>>
    /\ discarded' = FALSE
    /\ UNCHANGED <<token, websession, websession_closed, opened, update_retries>>

\* a public coroutine is called: the wrapper starts with its own update_retries
Invoke(name, args) ==
    /\ pc = "idle"
    /\ pc' = "called"
    /\ call' = [name |-> name, args |-> args]
    /\ token0' = token
    /\ Before(name)
    /\ update_retries' = UpdateRetries
    /\ attempts' = 0
    /\ sleeps' = 0
    /\ requested' = FALSE
    /\ sent' = <<>>
    /\ status' = 0
    /\ data' = NoData
    /\ outcome' = NoOutcome
    /\ items' = <<>>
    /\ idx' = 0
    /\ devices' = <<>>
    /\ parsed' = <<>>
    /\ discarded' = FALSE
    /\ UNCHANGED <<token, websession, websession_closed, opened>>

\* --------------------------------------------------------------------- login

LoginCall(email, password) == Invoke("login", <<email, password>>)

\* login, up to the awaited post
StartLogin ==
    /\ call.name = "login"
    /\ EnterFunc
    /\ Issue(Request("POST", <<"verifyPassword">>, <<>>,
                     <<call.args[1], call.args[2], "returnSecureToken">>))
    /\ UNCHANGED <<token, token0, websession, websession_closed, call, spent, prev, items, idx, devices,
                   parsed, discarded>>

\* fault variant: the missing key goes unnoticed
HasIdTokenAlways(body) == TRUE

\* data["idToken"] does not raise KeyError
HasIdToken(body) == body.idToken # Absent

\* if self.token is None
TokenIsNone(tok) == tok = None

\* login, from the response to its return or raise; login reads no status
RecvLogin(st, body) ==
    /\ call.name = "login"
    /\ pc = "await"
    /\ Release(st)
    /\ data' = body
    /\ IF ~HasIdToken(body)
       THEN /\ AttemptRaises(LoginError("Invalid credentials."))
            /\ UNCHANGED token
       ELSE /\ token' = body.idToken
            /\ IF TokenIsNone(token')
               THEN AttemptRaises(
                        LoginError("Login failed. Check credentials and try again."))
               ELSE AttemptReturns(TRUE)
    /\ UNCHANGED <<token0, websession, websession_closed, call, spent, prev, attempts, items, idx, devices,
                   parsed, discarded>>

\* ------------------------------------------------------------- get_locations

\* fault variant: if self.token is None
NotLoggedInNone(tok) == tok = None

\* if self.token == ""
NotLoggedIn(tok) == tok = EmptyToken

GetLocationsCall == Invoke("get_locations", <<>>)

\* get_locations, up to the awaited get
StartGetLocations ==
    /\ call.name = "get_locations"
    /\ EnterFunc
    /\ IF NotLoggedIn(token)
       THEN NothingIssued /\ AttemptRaises(LoginError("Login first."))
       ELSE IF token = None
       THEN NothingIssued /\ AttemptRaises(TypeError("str + NoneType"))
       ELSE Issue(Request("GET", <<"locations">>, Bearer(token), <<>>))
    /\ UNCHANGED <<token, token0, websession, websession_closed, call, spent, prev, items, idx, devices,
                   parsed, discarded>>

\* fault variant: the items are taken last to first
LocationsOfReversed(its) ==
    [i \in 1..Len(its) |->
        Location(its[Len(its) + 1 - i].id, its[Len(its) + 1 - i].name)]

\* [Location(id=location["id"], name=location["name"]) for location in items]
LocationsOf(its) == [i \in 1..Len(its) |-> Location(its[i].id, its[i].name)]

\* get_locations, from the response to its return or raise
RecvLocations(st, body) ==
    /\ call.name = "get_locations"
    /\ pc = "await"
    /\ Release(st)
    /\ IF st # 200
       THEN /\ AttemptRaises(
                   HTTPError("Failed to get locations, status code: ", StatusStr(st)))
            /\ data' = NoData
       ELSE /\ data' = body
            /\ IF ~body.has_items
               THEN AttemptRaises(KeyError("items"))
               ELSE AttemptReturns(LocationsOf(body.items))
    /\ UNCHANGED <<token, token0, websession, websession_closed, call, spent, prev, attempts, items, idx, devices,
                   parsed, discarded>>

\* -------------------------------------------------------------------- logout

FirebaseRegistrationToken == "fpxASxqXfE_rvyNdMGe2Bd"

\* fault variant: the message is not looked at
MessageRejectedNever(message) == FALSE

\* if data["message"] != "Operation Successful"
MessageRejected(message) == message # OperationSuccessful

LogoutCall == Invoke("logout", <<>>)

\* fault variant: logout with the guard of get_locations
StartLogoutGuarded ==
    /\ call.name = "logout"
    /\ EnterFunc
    /\ IF NotLoggedIn(token)
       THEN NothingIssued /\ AttemptRaises(LoginError("Login first."))
       ELSE IF token = None
       THEN NothingIssued /\ AttemptRaises(TypeError("str + NoneType"))
       ELSE Issue(Request("DELETE", <<"devices">>, Bearer(token),
                          <<FirebaseRegistrationToken>>))
    /\ UNCHANGED <<token, token0, websession, websession_closed, call, spent, prev, items, idx, devices,
                   parsed, discarded>>

\* logout, up to the awaited delete: no test of self.token
StartLogout ==
    /\ call.name = "logout"
    /\ EnterFunc
    /\ IF token = None
       THEN NothingIssued /\ AttemptRaises(TypeError("str + NoneType"))
       ELSE Issue(Request("DELETE", <<"devices">>, Bearer(token),
                          <<FirebaseRegistrationToken>>))
    /\ UNCHANGED <<token, token0, websession, websession_closed, call, spent, prev, items, idx, devices,
                   parsed, discarded>>

\* logout, from the response to its return or raise
RecvLogout(st, body) ==
    /\ call.name = "logout"
    /\ pc = "await"
    /\ Release(st)
    /\ IF st # 200
       THEN /\ AttemptRaises(
                   HTTPError("Failed to logout, status code: ", StatusStr(st)))
            /\ data' = NoData
            /\ UNCHANGED token
       ELSE /\ data' = body
            /\ IF ~body.has_message
               THEN /\ AttemptRaises(KeyError("message"))
                    /\ UNCHANGED token
               ELSE IF MessageRejected(body.message)
               THEN /\ AttemptRaises(HTTPError("Failed to logout, message: ",
                                               body.message))
                    /\ UNCHANGED token
               ELSE /\ token' = EmptyToken
                    /\ AttemptReturns(TRUE)
    /\ UNCHANGED <<token0, websession, websession_closed, call, spent, prev, attempts, items, idx, devices,
                   parsed, discarded>>

\* --------------------------------------------------------------- get_sensors

\* x.lower() of the field names the server sends
Lower(x) ==
    CASE x = "NotSupported" -> "notsupported"
      [] x = "NOTSUPPORTED" -> "notsupported"
      [] x = "notsupported" -> "notsupported"
      [] x = "Temperature" -> "temperature"
      [] x = "Humidity" -> "humidity"

\* fault variant: the comparison without lower()
RECURSIVE SensorFieldNamesCaseSensitive(_)
SensorFieldNamesCaseSensitive(fields) ==
    IF fields = <<>> THEN <<>>
    ELSE IF Head(fields) # "notsupported"
         THEN <<Head(fields)>> \o SensorFieldNamesCaseSensitive(Tail(fields))
         ELSE SensorFieldNamesCaseSensitive(Tail(fields))

\* [x for x in sensor.get("fields") if x.lower() != "notsupported"]
RECURSIVE SensorFieldNames(_)
SensorFieldNames(fields) ==
    IF fields = <<>> THEN <<>>
    ELSE IF Lower(Head(fields)) # "notsupported"
         THEN <<Head(fields)>> \o SensorFieldNames(Tail(fields))
         ELSE SensorFieldNames(Tail(fields))

\* ",".join(names): the names with a "," between two of them
RECURSIVE Join(_)
Join(names) ==
    IF Len(names) <= 1 THEN names
    ELSE <<Head(names), ",">> \o Join(Tail(names))

\* fields_str, then "{fields}".format(fields=fields_str): None is written "None"
FieldsStr(names) == IF names # <<>> THEN Join(names) ELSE <<"None">>

Aggregates == "ai.ticks.1"

\* the device dict built from one entry of items
DeviceDict(device, location) ==
    [name |-> device.name,
     device_id |-> device.id,
     type |-> device.sensor.type.name,
     sensor_id |-> device.sensor.id,
     sensor_field_names |-> SensorFieldNames(device.sensor.fields),
     location |-> location,
     permissions |-> device.sensor.permissions,
     model |-> device.sensor.type.name]

\* Sensor(**device) once device["data"] is set
Sensor(device, fields) ==
    [name |-> device.name,
     device_id |-> device.device_id,
     type |-> device.type,
     sensor_id |-> device.sensor_id,
     sensor_field_names |-> device.sensor_field_names,
     location |-> device.location,
     permissions |-> device.permissions,
     model |-> device.model,
     data |-> fields]

\* the feed request of one device dict
FeedRequest(device, tz, start, end, tok) ==
    Request("GET",
            <<"feed", device.device_id, FieldsStr(device.sensor_field_names),
              tz, start, end, Aggregates, "spot">>,
            Bearer(tok), <<>>)

GetSensorsCall(location, tz, start, end) ==
    Invoke("get_sensors", <<location, tz, start, end>>)

\* fault variant: the list outlives the attempt that built it
NoLocalsKeepDevices == items' = <<>> /\ idx' = 0 /\ devices' = devices

\* the locals of get_sensors when its frame is entered or left
NoLocals == items' = <<>> /\ idx' = 0 /\ devices' = <<>>

\* get_sensors, up to the awaited get of the associations
StartGetSensors ==
    /\ call.name = "get_sensors"
    /\ EnterFunc
    /\ NoLocals
    /\ parsed' = <<>>
    /\ IF NotLoggedIn(token)
       THEN NothingIssued /\ AttemptRaises(LoginError("Login first."))
       ELSE IF ValidateArgs(call.args[2], call.args[3], call.args[4]) # NoError
       THEN /\ NothingIssued
            /\ AttemptRaises(ValidateArgs(call.args[2], call.args[3], call.args[4]))
       ELSE IF token = None
       THEN NothingIssued /\ AttemptRaises(TypeError("str + NoneType"))
       ELSE Issue(Request("GET", <<"sensorAssociations", call.args[1].id>>,
                          Bearer(token), <<>>))
    /\ UNCHANGED <<token, token0, websession, websession_closed, call, spent, prev, discarded>>

\* get_sensors, from the association response to the awaited get of the first
\* feed, or to its return or raise
RecvAssociations(st, body) ==
    /\ call.name = "get_sensors"
    /\ pc = "await"
    /\ idx = 0
    /\ IF st # 200
       THEN /\ Release(st)
            /\ AttemptRaises(
                   HTTPError("Failed to get location, status code: ", StatusStr(st)))
            /\ NoLocals
            /\ parsed' = <<>>
       ELSE IF ~body.has_items
       THEN /\ Release(st)
            /\ AttemptRaises(TypeError("NoneType is not iterable"))
            /\ NoLocals
            /\ parsed' = <<>>
       ELSE IF body.items = <<>>
       THEN /\ Release(st)
            /\ AttemptReturns(devices)
            /\ NoLocals
            /\ parsed' = <<body>>
       ELSE /\ items' = body.items
            /\ idx' = 1
            /\ IssueNext(st, FeedRequest(DeviceDict(body.items[1], call.args[1]),
                                         call.args[2], call.args[3], call.args[4],
                                         token))
            /\ parsed' = <<body>>
            /\ UNCHANGED devices
    /\ UNCHANGED <<token, token0, websession, websession_closed, call, spent, prev, attempts, data, discarded>>

\* fault variant: devices.insert(0, device)
PrependDevice(built, sensor) == <<sensor>> \o built

\* devices.append(device)
AppendDevice(built, sensor) == Append(built, sensor)

\* fault variant: a feed status other than 200 ends the loop and the list built
\* so far is returned
RecvFeedPartial(st, body) ==
    /\ call.name = "get_sensors"
    /\ pc = "await"
    /\ idx >= 1
    /\ LET device == DeviceDict(items[idx], call.args[1])
       IN  IF st # 200
           THEN /\ Release(st)
                /\ AttemptReturns(devices)
                /\ NoLocals
                /\ parsed' = parsed
                /\ UNCHANGED discarded
           ELSE IF body.device # device.device_id
           THEN /\ Release(st)
                /\ AttemptRaises(TypeError("NoneType is not subscriptable"))
                /\ NoLocals
                /\ parsed' = <<>>
                /\ discarded' = (discarded \/ devices # <<>>)
           ELSE IF idx < Len(items)
           THEN /\ devices' = AppendDevice(devices, Sensor(device, body.fields))
                /\ idx' = idx + 1
                /\ IssueNext(st, FeedRequest(DeviceDict(items[idx + 1], call.args[1]),
                                             call.args[2], call.args[3], call.args[4],
                                             token))
                /\ parsed' = Append(parsed, body)
                /\ UNCHANGED <<items, discarded>>
           ELSE /\ Release(st)
                /\ AttemptReturns(AppendDevice(devices, Sensor(device, body.fields)))
                /\ NoLocals
                /\ parsed' = Append(parsed, body)
                /\ UNCHANGED discarded
    /\ UNCHANGED <<token, token0, websession, websession_closed, call, spent, prev, attempts, data>>

\* get_sensors, from the feed response of items[idx] to the awaited get of the
\* next feed, or to its return or raise
RecvFeed(st, body) ==
    /\ call.name = "get_sensors"
    /\ pc = "await"
    /\ idx >= 1
    /\ LET device == DeviceDict(items[idx], call.args[1])
       IN  IF st # 200
           THEN /\ Release(st)
                /\ AttemptRaises(
                       HTTPError("Failed to get sensor, status code: ", StatusStr(st)))
                /\ NoLocals
                /\ parsed' = <<>>
                /\ discarded' = (discarded \/ devices # <<>>)
           ELSE IF body.device # device.device_id
           THEN /\ Release(st)
                /\ AttemptRaises(TypeError("NoneType is not subscriptable"))
                /\ NoLocals
                /\ parsed' = <<>>
                /\ discarded' = (discarded \/ devices # <<>>)
           ELSE IF idx < Len(items)
           THEN /\ devices' = AppendDevice(devices, Sensor(device, body.fields))
                /\ idx' = idx + 1
                /\ IssueNext(st, FeedRequest(DeviceDict(items[idx + 1], call.args[1]),
                                             call.args[2], call.args[3], call.args[4],
                                             token))
                /\ parsed' = Append(parsed, body)
                /\ UNCHANGED <<items, discarded>>
           ELSE /\ Release(st)
                /\ AttemptReturns(AppendDevice(devices, Sensor(device, body.fields)))
                /\ NoLocals
                /\ parsed' = Append(parsed, body)
                /\ UNCHANGED discarded
    /\ UNCHANGED <<token, token0, websession, websession_closed, call, spent, prev, attempts, data>>

\* ---------------------------------------------------------------- next state

\* ------------------------------------------------------------- util.request

UserAgent == "okhttp/5.0.0-alpha.11"
Methods == {"GET", "DELETE"}
Urls == {<<"locations">>}
RequestBodies == {[message |-> OperationSuccessful], [items |-> <<>>]}

\* request(url, method, websession), up to the awaited session.request: it is
\* not wrapped by _retry and uses the session of its argument
request(url, method, supplied) ==
    /\ pc = "idle"
    /\ pc' = "await"
    /\ call' = [name |-> "request", args |-> <<url, method, supplied>>]
    /\ token0' = token
    /\ Before("request")
    /\ update_retries' = 0
    /\ attempts' = 0
    /\ sleeps' = 0
    /\ requested' = TRUE
    /\ sent' = <<[method |-> method, url |-> url, agent |-> UserAgent]>>
    /\ status' = 0
    /\ data' = NoData
    /\ opened' = IF supplied THEN opened ELSE opened + 1
    /\ outcome' = NoOutcome
    /\ items' = <<>>
    /\ idx' = 0
    /\ devices' = <<>>
    /\ parsed' = <<>>
    /\ discarded' = FALSE
    /\ UNCHANGED <<token, websession, websession_closed>>

\* the response arrived: it is parsed whatever its status, the async with
\* blocks are left and request returns (response, data)
RecvRequest(st, body) ==
    /\ pc = "await"
    /\ call.name = "request"
    /\ pc' = "idle"
    /\ status' = st
    /\ data' = body
    /\ opened' = IF call.args[3] THEN opened ELSE opened - 1
    /\ outcome' = Returned(<<st, body>>)
    /\ UNCHANGED <<token, token0, websession, websession_closed, call, spent, prev,
                   update_retries, attempts, sleeps, requested, sent, items,
                   idx, devices, parsed, discarded>>

Next ==
    \/ \E e \in Emails, p \in Passwords : LoginCall(e, p)
    \/ StartLogin
    \/ \E s \in Statuses, d \in LoginBodies : RecvLogin(s, d)
    \/ GetLocationsCall
    \/ StartGetLocations
    \/ \E s \in Statuses, d \in LocationsBodies : RecvLocations(s, d)
    \/ \E l \in Locations, tz \in Timezones, r \in TimeRanges :
           GetSensorsCall(l, tz, r[1], r[2])
    \/ StartGetSensors
    \/ \E s \in Statuses, d \in AssociationBodies : RecvAssociations(s, d)
    \/ \E s \in Statuses, d \in FeedBodies : RecvFeed(s, d)
    \/ LogoutCall
    \/ StartLogout
    \/ \E s \in Statuses, d \in LogoutBodies : RecvLogout(s, d)
    \/ \E u \in Urls, m \in Methods, w \in BOOLEAN : request(u, m, w)
    \/ \E s \in Statuses, d \in RequestBodies : RecvRequest(s, d)

Spec == Init /\ [][Next]_vars

\* ------------------------------------------------------------------- claims

Finished(name) == pc = "idle" /\ call.name = name
RaisedA(type) == outcome.kind = "raise" /\ outcome.error.type = type
ReturnedTrue == outcome.kind = "return" /\ outcome.value = TRUE
\* neither awaiting a response nor sleeping
NeverSuspended == pc \in {"called", "idle"}
argTz == call.args[2]
argStart == call.args[3]
argEnd == call.args[4]

\* C1: a get_locations or get_sensors call made while the token is "" issues
\* no request, is never suspended, and ends in its first attempt with LoginError.
C1_NoTokenNoRequest ==
    (call.name \in {"get_locations", "get_sensors"} /\ token0 = EmptyToken) =>
        /\ ~requested
        /\ sent = <<>>
        /\ opened = 0
        /\ NeverSuspended
        /\ pc = "idle" => (attempts = 1 /\ RaisedA("LoginError"))

C1_Witness ==
    /\ Finished("get_sensors")
    /\ token0 = EmptyToken
    /\ argTz \in KnownTimezones
    /\ outcome = Raised(LoginError("Login first."))

\* C2: a get_locations or get_sensors call made with a non-empty token calls
\* func at most 5 times; every attempt before the running one raised HTTPError
\* (one sleep each); the call ends at the first attempt that does not raise
\* HTTPError, with that attempt's result, or at the 5th attempt with the
\* HTTPError of that attempt's last response.
C2_AtMostFiveAttempts ==
    (call.name \in {"get_locations", "get_sensors"} /\ token0 = Str("abc")) =>
        /\ attempts <= 5
        /\ pc = "await" => attempts = sleeps + 1
        /\ pc = "sleep" => (attempts = sleeps /\ attempts < 5 /\ status # 200)
        /\ (pc = "idle" /\ RaisedA("HTTPError")) =>
               /\ attempts = 5
               /\ sleeps = 4
               /\ status # 200
               /\ outcome.error.msg[2] = StatusStr(status)
        /\ (pc = "idle" /\ ~RaisedA("HTTPError")) => attempts = sleeps + 1
        /\ (pc = "idle" /\ outcome.kind = "return") =>
               /\ status = 200
               /\ call.name = "get_locations" => outcome.value = LocationsOf(data.items)
               /\ call.name = "get_sensors" => Len(outcome.value) = Len(sent) - 1

C2_Witness ==
    /\ Finished("get_sensors")
    /\ token0 = Str("abc")
    /\ attempts = 5
    /\ outcome = Raised(HTTPError("Failed to get sensor, status code: ", "401"))

\* C3: a login call does not end on a response whose status is not 200
\* before its 5th attempt, and then it ends with HTTPError.
C3_LoginRetriesFailedTransport ==
    (Finished("login") /\ status # 200) =>
        (attempts = 5 /\ sleeps = 4 /\ RaisedA("HTTPError"))

\* C4: a call that ends with LoginError or with a validation failure of
\* get_sensors made one attempt and no sleep, and used no retry credit.
C4_OtherFailuresNotRetried ==
    (/\ pc = "idle"
     /\ outcome.kind = "raise"
     /\ outcome.error.type \in {"LoginError", "ValueError", "UnknownTimeZoneError"}) =>
        /\ attempts = 1
        /\ sleeps = 0
        /\ update_retries = UpdateRetries

C4_Witness ==
    /\ Finished("get_sensors")
    /\ token0 = Str("abc")
    /\ outcome = Raised(ValueError("Invalid start or end time."))

\* C5 as stated: after a login whose response has no idToken, login has
\* raised LoginError and the token is "".
C5_TokenEmptyAfterMissingField ==
    (Finished("login") /\ data.idToken = Absent) =>
        (RaisedA("LoginError") /\ token = EmptyToken)

\* C5 amended: after a login whose response has no idToken, login has raised
\* LoginError and the token is what it was when login was called.
C5_TokenKeptAfterMissingField ==
    (Finished("login") /\ data.idToken = Absent) =>
        /\ outcome = Raised(LoginError("Invalid credentials."))
        /\ attempts = 1
        /\ token = token0

C5_Witness ==
    /\ Finished("login")
    /\ data.idToken = Absent
    /\ token0 = Str("abc")
    /\ RaisedA("LoginError")

\* C6: a login whose response carries "" or null as idToken raises LoginError;
\* login returns True only with a non-empty string stored as token.
C6_EmptyTokenRejected ==
    Finished("login") =>
        /\ data.idToken \in {EmptyToken, None} => RaisedA("LoginError")
        /\ ReturnedTrue => (token.kind = "str" /\ token.v # "")

\* C7: logout returns True exactly when its last response has status 200 and
\* the message "Operation Successful"; the token is then ""; after a logout
\* that raised HTTPError the token is what it was when logout was called.
C7_LogoutSuccess ==
    Finished("logout") =>
        /\ ReturnedTrue <=>
               (/\ requested
                /\ status = 200
                /\ data.has_message
                /\ data.message = OperationSuccessful)
        /\ ReturnedTrue => token = EmptyToken
        /\ RaisedA("HTTPError") =>
               /\ token = token0
               /\ status # 200 \/ data.message # OperationSuccessful

C7_Witness ==
    /\ Finished("logout")
    /\ token0 = Str("abc")
    /\ ReturnedTrue
    /\ token = EmptyToken

\* what the response (st, body) makes of a logout attempt
LogoutOutcome(st, body) ==
    IF st # 200
    THEN Raised(HTTPError("Failed to logout, status code: ", StatusStr(st)))
    ELSE IF ~body.has_message THEN Raised(KeyError("message"))
    ELSE IF body.message # OperationSuccessful
    THEN Raised(HTTPError("Failed to logout, message: ", body.message))
    ELSE Returned(TRUE)

\* C8: a logout call made while the token is "" issues its DELETE request in
\* every attempt, never raises LoginError, and ends as its last response says.
C8_LogoutWithoutLogin ==
    (call.name = "logout" /\ token0 = EmptyToken /\ pc # "called") =>
        /\ requested
        /\ Len(sent) = 1
        /\ sent[1].method = "DELETE"
        /\ sent[1].auth = <<"Bearer ", "">>
        /\ pc = "idle" =>
               (~RaisedA("LoginError") /\ outcome = LogoutOutcome(status, data))

C8_Witness ==
    /\ Finished("logout")
    /\ token0 = EmptyToken
    /\ ReturnedTrue

\* the inputs C9 lists: an unknown timezone; start and end given and one of
\* them no integer; start and end given, integers, and start > end as get_sensors
\* compares them (the two strings)
C9_InputsFail ==
    \/ argTz \notin KnownTimezones
    \/ /\ argStart # <<>>
       /\ argEnd # <<>>
       /\ \/ ~ParsesAsInt(argStart)
          \/ ~ParsesAsInt(argEnd)
          \/ StrGreater(argStart, argEnd)

\* C9: a get_sensors call with a non-empty token and inputs that fail the
\* validation issues no request, is never suspended, and ends in its first
\* attempt with the validation's exception.
C9_ValidationBeforeNetwork ==
    (call.name = "get_sensors" /\ token0 # EmptyToken /\ C9_InputsFail) =>
        /\ ~requested
        /\ sent = <<>>
        /\ NeverSuspended
        /\ pc = "idle" =>
               /\ attempts = 1
               /\ RaisedA("ValueError") \/ RaisedA("UnknownTimeZoneError")

C9_Witness ==
    /\ Finished("get_sensors")
    /\ token0 = Str("abc")
    /\ argStart = <<"2", "0", "0">>
    /\ argEnd = <<"1", "0", "0">>
    /\ outcome = Raised(ValueError("Start time cannot be after end time."))

\* C10 as stated: a get_sensors call with a non-empty token and a start that
\* is given and no integer issues no request and ends with a validation
\* failure, whatever end is.
C10_BadStartAnyEnd ==
    (/\ call.name = "get_sensors"
     /\ token0 # EmptyToken
     /\ argStart # <<>>
     /\ ~ParsesAsInt(argStart)) =>
        /\ ~requested
        /\ NeverSuspended
        /\ pc = "idle" => (RaisedA("ValueError") \/ RaisedA("UnknownTimeZoneError"))

\* C10 amended: the same when end is given too; with a known timezone the
\* failure is ValueError("Invalid start or end time.").
C10_BadStartGivenEnd ==
    (/\ call.name = "get_sensors"
     /\ token0 # EmptyToken
     /\ argStart # <<>>
     /\ ~ParsesAsInt(argStart)
     /\ argEnd # <<>>) =>
        /\ ~requested
        /\ NeverSuspended
        /\ pc = "idle" =>
               /\ attempts = 1
               /\ IF argTz \in KnownTimezones
                  THEN outcome = Raised(ValueError("Invalid start or end time."))
                  ELSE RaisedA("UnknownTimeZoneError")

C10_Witness ==
    /\ Finished("get_sensors")
    /\ token0 = Str("abc")
    /\ argStart = <<"a", "b", "c">>
    /\ argEnd = <<"9">>
    /\ outcome = Raised(ValueError("Invalid start or end time."))

\* a is after b in the order of strings: at the first position where they
\* differ a has the character of the higher code, or b is a proper prefix of a
C11_LexAfter(a, b) ==
    \E i \in 1..Len(a) :
        /\ \A j \in 1..(i - 1) : j <= Len(b) /\ a[j] = b[j]
        /\ \/ i > Len(b)
           \/ Ord(a[i]) > Ord(b[i])

C11_IntegerRange ==
    /\ call.name = "get_sensors"
    /\ token0 = Str("abc")
    /\ argTz \in KnownTimezones
    /\ argStart # <<>>
    /\ argEnd # <<>>
    /\ ParsesAsInt(argStart)
    /\ ParsesAsInt(argEnd)

\* C11: with start and end both given and both integers, get_sensors raises
\* ValueError("Start time cannot be after end time.") before any request when
\* start is after end in the order of strings, and otherwise goes on to its
\* association request and does not raise that error: "9" with "10" is
\* rejected, "10" with "9" is not.
C11_RangeComparedAsStrings ==
    C11_IntegerRange =>
        IF C11_LexAfter(argStart, argEnd)
        THEN /\ ~requested
             /\ NeverSuspended
             /\ pc = "idle" =>
                    outcome = Raised(ValueError("Start time cannot be after end time."))
        ELSE /\ pc # "called" => requested
             /\ pc = "idle" => ~RaisedA("ValueError")

C11_Witness ==
    /\ Finished("get_sensors")
    /\ C11_IntegerRange
    /\ argStart = <<"9">>
    /\ argEnd = <<"1", "0">>
    /\ IntOf(argStart) < IntOf(argEnd)
    /\ ~requested
    /\ outcome = Raised(ValueError("Start time cannot be after end time."))

SensorsCall == call.name = "get_sensors" /\ token0 = Str("abc")
SensorsReturned == SensorsCall /\ pc = "idle" /\ outcome.kind = "return"

\* C12: the step of get_sensors in which a response with a status other than
\* 200 arrives (association or feed) ends the attempt with HTTPError of that
\* status and drops the list built so far: the wrapper sleeps for its retry or
\* raises that HTTPError to the caller; a list get_sensors returns comes
\* from an attempt whose responses were all 200 and has one Sensor per device.
C12_NoPartialList ==
    [][/\ (call.name = "get_sensors" /\ pc = "await" /\ status' # 200) =>
              /\ pc' \in {"sleep", "idle"}
              /\ devices' = <<>>
              /\ pc' = "sleep" => outcome' = NoOutcome
              /\ pc' = "idle" =>
                     /\ outcome'.kind = "raise"
                     /\ outcome'.error.type = "HTTPError"
                     /\ outcome'.error.msg[2] = StatusStr(status')
       /\ (call.name = "get_sensors" /\ pc = "await" /\ pc' = "idle"
           /\ outcome'.kind = "return") =>
              /\ status' = 200
              /\ Len(outcome'.value) = Len(parsed'[1].items)
      ]_vars

C12_Witness ==
    /\ Finished("get_sensors")
    /\ Len(sent) = 3
    /\ attempts = 5
    /\ outcome = Raised(HTTPError("Failed to get sensor, status code: ", "500"))

\* C13: while get_sensors awaits a response it has issued exactly one request
\* more than it has received responses (the association request first); when
\* it returns over N devices it has issued 1 + N requests, the feed request
\* number i for device i, and returns N Sensors, the i-th built from the i-th
\* device of the association response and from the feed response number i.
C13_OneRequestPerDeviceInOrder ==
    SensorsCall =>
        /\ pc = "await" =>
               /\ Len(sent) = Len(parsed) + 1
               /\ Len(devices) = idx - (IF idx = 0 THEN 0 ELSE 1)
               /\ sent[1].url[1] = "sensorAssociations"
               /\ opened <= 1
        /\ (pc = "idle" /\ outcome.kind = "return") =>
               LET its == parsed[1].items
                   N == Len(its)
               IN  /\ Len(sent) = 1 + N
                   /\ Len(parsed) = 1 + N
                   /\ sent[1].url = <<"sensorAssociations", call.args[1].id>>
                   /\ Len(outcome.value) = N
                   /\ \A i \in 1..N :
                          /\ sent[i + 1].url[1] = "feed"
                          /\ sent[i + 1].url[2] = its[i].id
                          /\ parsed[i + 1].device = its[i].id
                          /\ outcome.value[i].device_id = its[i].id
                          /\ outcome.value[i].name = its[i].name
                          /\ outcome.value[i].sensor_id = its[i].sensor.id
                          /\ outcome.value[i].type = its[i].sensor.type.name
                          /\ outcome.value[i].location = call.args[1]
                          /\ outcome.value[i].data = parsed[i + 1].fields

C13_Witness ==
    /\ SensorsReturned
    /\ Len(outcome.value) = 2
    /\ outcome.value[1].device_id = "D2"
    /\ outcome.value[2].device_id = "D1"
    /\ outcome.value[1].data # outcome.value[2].data

\* the spellings of "notsupported" the server sends
C14_NotSupported == {"NotSupported", "notsupported", "NOTSUPPORTED"}
C14_Supported(x) == x \notin C14_NotSupported

\* C14: every Sensor get_sensors returns has as sensor_field_names the fields
\* of its device in the association response without the entries that spell
\* "notsupported" in some casing, the others in their order.
C14_FieldNamesFiltered ==
    SensorsReturned =>
        \A i \in 1..Len(outcome.value) :
            LET names == outcome.value[i].sensor_field_names
                fields == parsed[1].items[i].sensor.fields
            IN  /\ \A k \in 1..Len(names) : names[k] \notin C14_NotSupported
                /\ names = SelectSeq(fields, C14_Supported)

C14_Witness ==
    /\ SensorsReturned
    /\ Len(outcome.value) = 2
    /\ outcome.value[1].sensor_field_names = <<"Humidity", "Temperature">>
    /\ outcome.value[2].sensor_field_names = <<>>
    /\ parsed[1].items[2].sensor.fields = <<"NOTSUPPORTED", "notsupported">>

\* the running (or last) operation acquires its own ClientSession
C15_OwnSession ==
    IF call.name = "request" THEN ~call.args[3] ELSE ~websession

\* C15: the client never closes the session it was given, and creates none
\* when it has one; without one, a ClientSession of the client is open exactly
\* while a request of it is awaited: one at a time, and none while the
\* wrapper sleeps or after the operation returned or raised.
C15_TransportOwnership ==
    /\ ~websession_closed
    /\ opened \in {0, 1}
    /\ opened = 1 <=> (pc = "await" /\ C15_OwnSession)
    /\ pc \in {"idle", "called", "sleep"} => opened = 0

C15_Witness ==
    /\ Finished("login")
    /\ ~websession
    /\ requested
    /\ status = 200
    /\ RaisedA("LoginError")
    /\ opened = 0

Wrapped == {"login", "get_locations", "get_sensors", "logout"}

\* C16: every call of a wrapped coroutine starts with update_retries = 5 and
\* no attempt made, whatever the call before it used up; the wrapper's
\* update_retries counts down from 5 within the call, and a call that ends
\* with the wrapper's HTTPError had all 5 attempts.
C16_FullBudgetEachInvocation ==
    call.name \in Wrapped =>
        /\ pc = "called" =>
               (update_retries = UpdateRetries /\ attempts = 0 /\ sleeps = 0)
        /\ pc \in {"await", "sleep"} => update_retries = UpdateRetries - sleeps
        /\ pc = "await" => attempts = sleeps + 1
        /\ (pc = "idle" /\ RaisedA("HTTPError")) =>
               (attempts = UpdateRetries /\ update_retries = 0)

C16_Witness ==
    /\ Finished("get_locations")
    /\ spent
    /\ RaisedA("HTTPError")
    /\ attempts = UpdateRetries

\* C17: a get_locations call with a non-empty token that returns gives one
\* Location per item of the response, with the item's id and name, in the
\* items' order, and leaves the token and the sessions as they were; when the
\* call before it was a get_locations that returned with the same token and
\* the same items, the two results are equal.
C17_GetLocationsIdempotent ==
    (Finished("get_locations") /\ outcome.kind = "return") =>
        /\ token = token0
        /\ token0 # EmptyToken
        /\ opened = 0
        /\ Len(outcome.value) = Len(data.items)
        /\ \A i \in 1..Len(data.items) :
               /\ outcome.value[i].id = data.items[i].id
               /\ outcome.value[i].name = data.items[i].name
        /\ (prev.set /\ prev.token = token0 /\ prev.items = data.items) =>
               outcome.value = prev.value

C17_Witness ==
    /\ Finished("get_locations")
    /\ outcome.kind = "return"
    /\ prev.set
    /\ prev.token = token0
    /\ prev.items = data.items
    /\ Len(outcome.value) = 2
    /\ outcome.value[1].id = "L2"
    /\ outcome.value[2].id = "L1"
    /\ outcome.value = prev.value

\* C18: a step that changes self.token is a step of login or logout (none of
\* get_locations or get_sensors); the token goes from "" to another value
\* only in login, and from another value to "" only in logout.
C18_TokenWrittenByLoginSetAndLogoutClear ==
    [][/\ token' # token => (pc # "idle" /\ call.name \in {"login", "logout"})
       /\ (token = EmptyToken /\ token' # EmptyToken) => call.name = "login"
       /\ (token # EmptyToken /\ token' = EmptyToken) => call.name = "logout"
      ]_vars

\* C19: a login call that ends in LoginError leaves self.token as it was
\* when the call was made.
C19_FailedLoginKeepsToken ==
    (Finished("login") /\ RaisedA("LoginError")) => token = token0

\* C20: every attempt of get_sensors, a retry included, starts at the
\* association request with an empty list, and the list holds one Sensor per
\* device already fetched in the running attempt; the list returned after a
\* retry has one Sensor per device of the last attempt's association response,
\* each built from that response and from its own feed response.
C20_RetryStartsOver ==
    (SensorsCall /\ attempts >= 2) =>
        /\ (pc = "await" /\ idx = 0) =>
               /\ devices = <<>>
               /\ parsed = <<>>
               /\ Len(sent) = 1
               /\ sent[1].url[1] = "sensorAssociations"
        /\ (pc = "await" /\ idx >= 1) =>
               /\ Len(devices) = idx - 1
               /\ Len(devices) = Len(parsed) - 1
               /\ Len(devices) < Len(parsed[1].items)
               /\ \A i \in 1..Len(devices) :
                      devices[i].device_id = parsed[1].items[i].id
        /\ pc = "sleep" => devices = <<>>
        /\ (pc = "idle" /\ outcome.kind = "return") =>
               /\ Len(outcome.value) = Len(parsed[1].items)
               /\ \A i \in 1..Len(outcome.value) :
                      /\ outcome.value[i].device_id = parsed[1].items[i].id
                      /\ outcome.value[i].data = parsed[i + 1].fields

C20_Witness ==
    /\ SensorsReturned
    /\ attempts >= 2
    /\ discarded
    /\ Len(outcome.value) = 1
    /\ outcome.value[1].device_id = "D2"

====
